---- MODULE Spec2Model ----
(***************************************************************************)
(* In-silico PCR (insilico_pcr_parallel_multifasta.py and its GUI          *)
(* front-end): the approximate-matching engine, the primer-table parser,   *)
(* the per-pair evaluator and the parallel dispatcher with its writers.    *)
(*                                                                         *)
(* A Python str is modelled as a tuple of one-character strings, so that   *)
(* slicing, case conversion, substring tests and regular-expression        *)
(* substitution are computed character by character as the code does.      *)
(***************************************************************************)
EXTENDS Integers, Sequences, FiniteSets, TLC

\* ------------------------------------------------------------------------
\* Bounds of the model
\* ------------------------------------------------------------------------
\* longest sequence handed to the forward scan
MaxSeqLen == 3
\* longest primer handed to a scan
MaxPrimerLen == 2
\* largest --max_mismatch
MaxMismatch == 1
\* longest sequence handed to the reverse scan
MaxRevSeqLen == 2
\* longest record of the single-file runs of process_pair
MaxRecLen == 3
\* most FASTA files of the multi-file runs of process_pair
MaxFiles == 2
\* most data rows of a primer table given to parse_primer_csv
MaxRows == 2
\* most primer pairs of a run
MaxPairs == 2
\* largest --workers and largest os.cpu_count()
MaxWorkers == 2

\* ------------------------------------------------------------------------
\* Generic helpers
\* ------------------------------------------------------------------------
Min(a, b) == IF a <= b THEN a ELSE b

Reverse(s) == [i \in 1..Len(s) |-> s[Len(s) + 1 - i]]

\* All tuples over S of length lo..hi.
TuplesOf(S, lo, hi) == UNION {[1..n -> S] : n \in lo..hi}

\* Python slice s[a:b] for 0 <= a, with b clipped to len(s).
Slice(s, a, b) == SubSeq(s, a + 1, Min(b, Len(s)))

LowerLetters == <<"a","b","c","d","e","f","g","h","i","j","k","l","m",
                  "n","o","p","q","r","s","t","u","v","w","x","y","z">>
UpperLetters == <<"A","B","C","D","E","F","G","H","I","J","K","L","M",
                  "N","O","P","Q","R","S","T","U","V","W","X","Y","Z">>

IndexIn(letters, ch) == CHOOSE i \in 1..Len(letters) : letters[i] = ch

\* str.upper() and str.lower(), one character at a time.
UpperChar(ch) ==
    IF \E i \in 1..26 : LowerLetters[i] = ch
    THEN UpperLetters[IndexIn(LowerLetters, ch)] ELSE ch
LowerChar(ch) ==
    IF \E i \in 1..26 : UpperLetters[i] = ch
    THEN LowerLetters[IndexIn(UpperLetters, ch)] ELSE ch
Upper(s) == [i \in 1..Len(s) |-> UpperChar(s[i])]
Lower(s) == [i \in 1..Len(s) |-> LowerChar(s[i])]

\* ------------------------------------------------------------------------
\* IUPAC & matching helpers
\* ------------------------------------------------------------------------
CanonicalBases == {"A", "C", "G", "T"}

IUPAC ==
    ("A" :> {"A"}) @@ ("C" :> {"C"}) @@ ("G" :> {"G"}) @@ ("T" :> {"T"}) @@
    ("U" :> {"T"}) @@
    ("R" :> {"A","G"}) @@ ("Y" :> {"C","T"}) @@ ("S" :> {"G","C"}) @@
    ("W" :> {"A","T"}) @@ ("K" :> {"G","T"}) @@ ("M" :> {"A","C"}) @@
    ("B" :> {"C","G","T"}) @@ ("D" :> {"A","G","T"}) @@
    ("H" :> {"A","C","T"}) @@ ("V" :> {"A","C","G"}) @@
    ("N" :> {"A","C","G","T"})

comp ==
    ("A" :> "T") @@ ("T" :> "A") @@ ("G" :> "C") @@ ("C" :> "G") @@
    ("U" :> "A") @@ ("N" :> "N")

\* revcomp with comp.get(b, b): a code without a complement is kept as it is.
revcomp_keep_unknown(s) ==
    LET r == Upper(Reverse(s))
    IN  [i \in 1..Len(r) |-> IF r[i] \in DOMAIN comp THEN comp[r[i]] ELSE r[i]]

\* comp.get(b, 'N') for b in seq[::-1].upper()
revcomp(s) ==
    LET r == Upper(Reverse(s))
    IN  [i \in 1..Len(r) |-> IF r[i] \in DOMAIN comp THEN comp[r[i]] ELSE "N"]

\* IUPAC.get(ch, {'A','C','G','T'}) for ch in primer.upper()
primer_allowed_set(p) ==
    LET u == Upper(p)
    IN  [i \in 1..Len(u) |->
            IF u[i] \in DOMAIN IUPAC THEN IUPAC[u[i]] ELSE {"A","C","G","T"}]

\* zip(seg, allowed_sets) stops at the shorter of the two.
count_mismatches(seg, allowed_sets) ==
    Cardinality({i \in 1..Min(Len(seg), Len(allowed_sets)) :
                    seg[i] \notin allowed_sets[i]})

\* The sliding-window loop: for i in range(from, last + 1).
RECURSIVE scan_windows(_, _, _, _, _, _)
scan_windows(s, L, allowed, max_mm, i, last) ==
    IF i > last THEN <<>>
    ELSE LET mm == count_mismatches(Slice(s, i, i + L), allowed)
         IN  (IF mm <= max_mm THEN << <<i, i + L, mm>> >> ELSE <<>>)
             \o scan_windows(s, L, allowed, max_mm, i + 1, last)

\* find_approx_matches with range(0, len(seq) - L): the last window is not
\* looked at.
find_approx_matches_short(s, p, max_mm) ==
    LET L == Len(p)
    IN  IF L = 0 \/ Len(s) < L THEN <<>>
        ELSE scan_windows(s, L, primer_allowed_set(p), max_mm, 0, Len(s) - L - 1)

\* A hit is <<start, end, mismatches>>, zero-based half-open.
find_approx_matches(s, p, max_mm) ==
    LET L == Len(p)
    IN  IF L = 0 \/ Len(s) < L THEN <<>>
        ELSE scan_windows(s, L, primer_allowed_set(p), max_mm, 0, Len(s) - L)

\* ------------------------------------------------------------------------
\* CSV parser for primer pairs
\* ------------------------------------------------------------------------
\* k in h
Contains(h, k) ==
    \E i \in 0..(Len(h) - Len(k)) : SubSeq(h, i + 1, i + Len(k)) = k

Whitespace == {" ", "\t", "\r", "\n"}

\* str.strip()
RECURSIVE LStrip(_)
LStrip(s) == IF s # <<>> /\ Head(s) \in Whitespace THEN LStrip(Tail(s)) ELSE s
Strip(s) == Reverse(LStrip(Reverse(LStrip(s))))

Digits == <<"0", "1", "2", "3", "4", "5", "6", "7", "8", "9">>

\* str(n) for n >= 0
RECURSIVE Decimal(_)
Decimal(n) ==
    IF n < 10 THEN <<Digits[n + 1]>>
    ELSE Decimal(n \div 10) \o <<Digits[(n % 10) + 1]>>

fwd_keys == {<<"f", "o", "r", "w", "a", "r", "d">>,
             <<"f", "w", "d">>,
             <<"l", "e", "f", "t">>,
             <<"p", "r", "i", "m", "e", "r", "1">>,
             <<"p", "r", "i", "m", "e", "r", "_", "f", "w", "d">>}
rev_keys == {<<"r", "e", "v", "e", "r", "s", "e">>,
             <<"r", "e", "v">>,
             <<"r", "i", "g", "h", "t">>,
             <<"p", "r", "i", "m", "e", "r", "2">>,
             <<"p", "r", "i", "m", "e", "r", "_", "r", "e", "v">>}
id_keys == {<<"p", "a", "i", "r">>,
            <<"i", "d">>,
            <<"p", "a", "i", "r", "_", "i", "d">>,
            <<"n", "a", "m", "e">>}

\* None, as a value that compares with any str of the model.
None == <<"None">>

\* The last header (lowercased) that holds one of the keys, or None: the
\* detection loop overwrites the column at every header that matches.
detect_col(headers, keys) ==
    LET at == {i \in 1..Len(headers) : \E k \in keys : Contains(headers[i], k)}
    IN  IF at = {} THEN None
        ELSE headers[CHOOSE i \in at : \A j \in at : j <= i]

\* row.get(col, ''): csv.DictReader keys each row by the field names exactly
\* as the file spells them; a repeated field name keeps its last cell.
row_get(fieldnames, row, col) ==
    LET at == {i \in 1..Len(fieldnames) : fieldnames[i] = col}
    IN  IF at = {} THEN <<>>
        ELSE row[CHOOSE i \in at : \A j \in at : j <= i]

\* The loop `for idx, row in enumerate(reader, start=1)` from row idx on.
RECURSIVE parse_rows(_, _, _, _, _, _)
parse_rows(fieldnames, rows, idx, fwd_col, rev_col, id_col) ==
    IF idx > Len(rows) THEN <<>>
    ELSE LET row == rows[idx]
             fwd == Strip(row_get(fieldnames, row, fwd_col))
             rev == Strip(row_get(fieldnames, row, rev_col))
             pid0 == IF id_col # None
                     THEN Strip(row_get(fieldnames, row, id_col)) ELSE <<>>
             pid == IF pid0 = <<>>
                    THEN <<"p", "a", "i", "r", "_">> \o Decimal(idx) ELSE pid0
         IN  (IF fwd = <<>> \/ rev = <<>> THEN <<>>
              ELSE << [pair_id |-> pid, forward |-> Upper(fwd),
                       reverse |-> Upper(rev)] >>)
             \o parse_rows(fieldnames, rows, idx + 1, fwd_col, rev_col, id_col)

\* parse_primer_csv on a table [fieldnames, rows]: the list of pairs, or the
\* ValueError it raises.
parse_primer_csv(table) ==
    IF table.fieldnames = None
    THEN [raised |-> TRUE, pairs |-> <<>>]
    ELSE LET headers == [i \in 1..Len(table.fieldnames) |->
                            Lower(table.fieldnames[i])]
             fwd_col == detect_col(headers, fwd_keys)
             rev_col == detect_col(headers, rev_keys)
             id_col == detect_col(headers, id_keys)
         IN  IF fwd_col = None \/ rev_col = None
             THEN [raised |-> TRUE, pairs |-> <<>>]
             ELSE [raised |-> FALSE,
                   pairs |-> parse_rows(table.fieldnames, table.rows, 1,
                                        fwd_col, rev_col, id_col)]

\* ------------------------------------------------------------------------
\* Worker: process a single primer pair across all FASTA files
\* ------------------------------------------------------------------------
\* A FASTA file as read_fasta sees it: the records it yields, in order, and
\* whether the generator then raises (open() failing is error with no record
\* yielded; a decoding error further down the file is error after some).
\* [stem |-> sample name, name |-> file name, records |-> <<[seq_id, seq]>>,
\*  error |-> BOOLEAN]
read_fasta(file) == [k \in 1..Len(file.records) |->
                        [seq_id |-> file.records[k].seq_id,
                         seq |-> Upper(file.records[k].seq)]]

\* The filter with the orientation test `fstart0 <= rstart0` left out.
keep_hit_pair_any_side(f, r, minl, maxl) ==
    ~ (r[2] - f[1] < minl \/ r[2] - f[1] > maxl)

\* if fstart0 <= rstart0: amp_len = rend0 - fstart0;
\* if amp_len < min_len or amp_len > max_len: continue
keep_hit_pair(f, r, minl, maxl) ==
    /\ f[1] <= r[1]
    /\ ~ (r[2] - f[1] < minl \/ r[2] - f[1] > maxl)

\* The body of the two nested loops over f_hits and r_hits for one record:
\* the amplicon dicts appended, in loop order.
record_amplicons(pr, file, rec, max_mm, minl, maxl) ==
    LET s == Upper(rec.seq)
        f_hits == find_approx_matches(s, pr.forward, max_mm)
        r_hits == find_approx_matches(s, revcomp(pr.reverse), max_mm)
        R == Len(r_hits)
        both == [k \in 1..(Len(f_hits) * R) |->
                    <<f_hits[((k - 1) \div R) + 1], r_hits[((k - 1) % R) + 1]>>]
        keep(c) == keep_hit_pair(c[1], c[2], minl, maxl)
        kept == SelectSeq(both, keep)
    IN  [k \in 1..Len(kept) |->
            LET f == kept[k][1]
                r == kept[k][2]
            IN  [pair_id |-> pr.pair_id,
                 sample_name |-> file.stem,
                 fasta_file |-> file.name,
                 seq_id |-> rec.seq_id,
                 fwd_start_1based |-> f[1] + 1,
                 fwd_end_1based |-> f[2],
                 rev_start_1based |-> r[1] + 1,
                 rev_end_1based |-> r[2],
                 fwd_mismatches |-> f[3],
                 rev_mismatches |-> r[3],
                 amplicon_length |-> r[2] - f[1],
                 amplicon_sequence |-> Slice(s, f[1], r[2]),
                 fwd_primer |-> pr.forward,
                 rev_primer |-> pr.reverse]]

\* for seq_id, seq in read_fasta(fasta_p): ... over the records yielded.
RECURSIVE records_amplicons(_, _, _, _, _, _)
records_amplicons(pr, file, recs, max_mm, minl, maxl) ==
    IF recs = <<>> THEN <<>>
    ELSE record_amplicons(pr, file, Head(recs), max_mm, minl, maxl)
         \o records_amplicons(pr, file, Tail(recs), max_mm, minl, maxl)

\* except Exception as e: the note appended for the file.
error_entry(pr, file) == [pair_id |-> pr.pair_id, error |-> file.name]

\* One iteration of `for fasta_path in fasta_paths`: what the try block
\* appended before it ended or raised, then the note of the except block.
try_file(pr, file, max_mm, minl, maxl) ==
    records_amplicons(pr, file, read_fasta(file), max_mm, minl, maxl)
    \o (IF file.error THEN <<error_entry(pr, file)>> ELSE <<>>)

\* process_pair: returns (pair_id, result_amplicons).
RECURSIVE files_amplicons(_, _, _, _, _)
files_amplicons(pr, files, max_mm, minl, maxl) ==
    IF files = <<>> THEN <<>>
    ELSE try_file(pr, Head(files), max_mm, minl, maxl)
         \o files_amplicons(pr, Tail(files), max_mm, minl, maxl)

process_pair(pr, files, max_mm, minl, maxl) ==
    <<pr.pair_id, files_amplicons(pr, files, max_mm, minl, maxl)>>

\* ------------------------------------------------------------------------
\* Utilities and the result writers of run_parallel
\* ------------------------------------------------------------------------
SafeChars ==
    {LowerLetters[i] : i \in 1..26} \cup {UpperLetters[i] : i \in 1..26}
        \cup {Digits[i] : i \in 1..10} \cup {"_", ".", "-"}

RECURSIVE DropUnsafe(_)
DropUnsafe(s) ==
    IF s # <<>> /\ Head(s) \notin SafeChars THEN DropUnsafe(Tail(s)) ELSE s

\* re.sub(r'[^A-Za-z0-9_.-]+', '_', s): every run of other characters
\* becomes one "_".
RECURSIVE safe_name(_)
safe_name(s) ==
    IF s = <<>> THEN <<>>
    ELSE IF Head(s) \in SafeChars THEN <<Head(s)>> \o safe_name(Tail(s))
    ELSE <<"_">> \o safe_name(DropUnsafe(Tail(s)))

wrap_width == 80

\* wrap_seq: the lines s[i:i+width] for i in range(0, len(s), width).
wrap_seq(s) ==
    [k \in 1..((Len(s) + wrap_width - 1) \div wrap_width) |->
        Slice(s, (k - 1) * wrap_width, k * wrap_width)]

\* valid_amplicons = [a for a in amplicons if 'amplicon_sequence' in a]
valid_amplicons(amplicons) ==
    SelectSeq(amplicons, LAMBDA a : "amplicon_sequence" \in DOMAIN a)

\* The records written to <safe>_amplicons.fasta: the header fields and the
\* wrapped sequence, hits numbered per sample in list order.
collection_records(pair_id, valid) ==
    [k \in 1..Len(valid) |->
        [pair_id |-> pair_id,
         sample |-> valid[k].sample_name,
         hit |-> Cardinality({j \in 1..k :
                                valid[j].sample_name = valid[k].sample_name}),
         len |-> valid[k].amplicon_length,
         fwd |-> valid[k].fwd_primer,
         rev |-> valid[k].rev_primer,
         lines |-> wrap_seq(valid[k].amplicon_sequence)]]

summary_row(pair_id, a) ==
    [pair_id |-> pair_id,
     fasta_file |-> a.fasta_file,
     sample_name |-> a.sample_name,
     seq_id |-> a.seq_id,
     fwd_start_1based |-> a.fwd_start_1based,
     fwd_end_1based |-> a.fwd_end_1based,
     rev_start_1based |-> a.rev_start_1based,
     rev_end_1based |-> a.rev_end_1based,
     fwd_mismatches |-> a.fwd_mismatches,
     rev_mismatches |-> a.rev_mismatches,
     amplicon_length |-> a.amplicon_length,
     fwd_primer |-> a.fwd_primer,
     rev_primer |-> a.rev_primer]

\* summary_rows with each task's rows put in front of the rows gathered so
\* far instead of after them.
RECURSIVE summary_rows_backwards(_)
summary_rows_backwards(tsks) ==
    IF tsks = <<>> THEN <<>>
    ELSE summary_rows_backwards(Tail(tsks))
         \o [k \in 1..Len(Head(tsks)[2]) |->
                summary_row(Head(tsks)[1], Head(tsks)[2][k])]

\* for pair_id, amps in tasks: for a in amps: summary_rows.append({...})
RECURSIVE summary_rows(_)
summary_rows(tsks) ==
    IF tsks = <<>> THEN <<>>
    ELSE [k \in 1..Len(Head(tsks)[2]) |->
             summary_row(Head(tsks)[1], Head(tsks)[2][k])]
         \o summary_rows(Tail(tsks))

\* ------------------------------------------------------------------------
\* State
\* ------------------------------------------------------------------------
VARIABLES
    seq,            \* the sequence being scanned
    primer,         \* the primer handed to the scanner
    max_mismatch,   \* --max_mismatch
    hits,           \* the list find_approx_matches returned
    pair,           \* process_pair: the primer pair of the task
    fasta_paths,    \* the FASTA files, sorted by path
    min_len,        \* --min_len
    max_len,        \* --max_len
    file_idx,       \* process_pair: files already visited by the for loop
    result_amplicons, \* process_pair: the list being built
    primer_csv,     \* the primer table: [fieldnames, rows]
    primers,        \* the list parse_primer_csv returned
    caller,         \* "gui" (run_insilico_pcr) or "cli" (main)
    workers,        \* --workers as run_parallel receives it
    pool_size,      \* max_workers of the ProcessPoolExecutor
    futures,        \* futures[i]: [state, result] of the task of primers[i]
    order,          \* the tasks as_completed has yielded, in that order
    tasks,          \* run_parallel: the list of (pair_id, valid_amplicons)
    out_files,      \* out_dir: collection file name -> its records
    writes,         \* every open(out_fa, 'w') so far: <<file name, task>>
    stdout,         \* the lines printed
    summary,        \* amplicons_summary.csv: whether written, and its rows
    error,          \* the exception run_parallel ended with
    pc              \* position of the program

scanVars == <<seq, primer, hits>>
pairVars == <<pair, file_idx, result_amplicons>>
cfgVars == <<max_mismatch, min_len, max_len, fasta_paths>>
csvVars == <<primer_csv, primers>>
runVars == <<caller, workers, pool_size, futures, order, tasks, out_files,
             writes, stdout, summary, error>>
vars == <<scanVars, pairVars, cfgVars, csvVars, runVars, pc>>

\* The variables a specification does not use keep these values.
NoScan == seq = <<>> /\ primer = <<>> /\ hits = <<>>
NoPair == pair = <<>> /\ file_idx = 0 /\ result_amplicons = <<>>
NoCsv == primer_csv = <<>> /\ primers = <<>>
NoFiles == fasta_paths = <<>> /\ min_len = 0 /\ max_len = 0
\* --workers absent (None), or the int given.
WorkersNone == [none |-> TRUE, n |-> 0]
WorkersInt(n) == [none |-> FALSE, n |-> n]

NotWritten == [written |-> FALSE, rows |-> <<>>]
NoError == "None"

NoRun ==
    /\ caller = "cli" /\ workers = WorkersNone /\ pool_size = 0
    /\ futures = <<>> /\ order = <<>> /\ tasks = <<>>
    /\ out_files = <<>> /\ writes = <<>> /\ stdout = <<>>
    /\ summary = NotWritten /\ error = NoError

\* ------------------------------------------------------------------------
\* The window scanner on its own: the two scans process_pair makes of one
\* sequence, the forward primer as given and the reverse primer after revcomp
\* ------------------------------------------------------------------------
SeqBases == {"A", "C", "G", "T", "N"}
FwdCodes == {"A", "C", "G", "T", "U", "N"}
IupacCodes == {"A", "C", "G", "T", "U", "R", "Y", "S", "W", "K", "M",
               "B", "D", "H", "V", "N"}

InitScan ==
    /\ \/ /\ pc = "scan_fwd"
          /\ seq \in TuplesOf(SeqBases, 0, MaxSeqLen)
          /\ primer \in TuplesOf(FwdCodes, 0, MaxPrimerLen)
       \/ /\ pc = "scan_rev"
          /\ seq \in TuplesOf(CanonicalBases, 0, MaxRevSeqLen)
          /\ primer \in TuplesOf(IupacCodes, 0, MaxPrimerLen)
    /\ max_mismatch \in 0..MaxMismatch
    /\ hits = <<>>
    /\ NoPair /\ NoCsv /\ NoFiles /\ NoRun

\* f_hits = find_approx_matches(seq, fwd_pr, max_mismatch)
ScanForward ==
    /\ pc = "scan_fwd"
    /\ hits' = find_approx_matches(seq, primer, max_mismatch)
    /\ pc' = "f_hits"
    /\ UNCHANGED <<seq, primer, pairVars, cfgVars, csvVars, runVars>>

\* revrc = revcomp(rev_pr); r_hits = find_approx_matches(seq, revrc, max_mismatch)
ScanReverse ==
    /\ pc = "scan_rev"
    /\ hits' = find_approx_matches(seq, revcomp(primer), max_mismatch)
    /\ pc' = "r_hits"
    /\ UNCHANGED <<seq, primer, pairVars, cfgVars, csvVars, runVars>>

NextScan == ScanForward \/ ScanReverse

SpecScan == InitScan /\ [][NextScan]_vars

\* ------------------------------------------------------------------------
\* Properties of the scanner
\* ------------------------------------------------------------------------
\* The offsets of a set, in increasing order.
RECURSIVE Ascending(_)
Ascending(S) ==
    IF S = {} THEN <<>>
    ELSE LET m == CHOOSE x \in S : \A y \in S : x <= y
         IN  <<m>> \o Ascending(S \ {m})

\* Brute-force exact search: every offset whose window equals the primer.
BruteExact(s, p) ==
    LET L == Len(p)
        at == Ascending({i \in 0..(Len(s) - L) : SubSeq(s, i + 1, i + L) = p})
    IN  [k \in 1..Len(at) |-> <<at[k], at[k] + L, 0>>]

\* C9 as stated: with max_mismatch = 0 the hits of any non-empty primer over
\* the nucleotide alphabet are exactly the brute-force exact matches.
C9_ExactForAnyPrimer ==
    (pc = "f_hits" /\ max_mismatch = 0 /\ Len(primer) > 0)
        => hits = BruteExact(seq, primer)

\* C9 amended: with max_mismatch = 0 and a non-empty primer made of the
\* canonical bases A, C, G, T only, the hits are, in increasing offset order,
\* exactly the brute-force exact matches, each with mismatch count 0.
C9_ExactForCanonicalPrimer ==
    (pc = "f_hits" /\ max_mismatch = 0 /\ Len(primer) > 0
        /\ \A i \in 1..Len(primer) : primer[i] \in CanonicalBases)
        => hits = BruteExact(seq, primer)

C9_Witness ==
    /\ pc = "f_hits" /\ max_mismatch = 0
    /\ Len(primer) = 2 /\ \A i \in 1..2 : primer[i] \in CanonicalBases
    /\ Len(seq) = 3 /\ Len(hits) = 1 /\ hits[1][1] = 1

\* The complement of every IUPAC code, ambiguity codes included.
iupac_comp ==
    ("A" :> "T") @@ ("T" :> "A") @@ ("G" :> "C") @@ ("C" :> "G") @@
    ("U" :> "A") @@ ("R" :> "Y") @@ ("Y" :> "R") @@ ("S" :> "S") @@
    ("W" :> "W") @@ ("K" :> "M") @@ ("M" :> "K") @@ ("B" :> "V") @@
    ("V" :> "B") @@ ("D" :> "H") @@ ("H" :> "D") @@ ("N" :> "N")

iupac_revcomp(p) ==
    LET r == Reverse(p) IN [i \in 1..Len(r) |-> iupac_comp[r[i]]]

Unambiguous == {"A", "C", "G", "T", "U"}

\* C10: scanning with revcomp(reverse primer) (a) finds every hit that the
\* true IUPAC reverse complement finds, with no more mismatches, and (b)
\* counts a mismatch only at positions whose reverse-primer code is not an
\* ambiguity code: against canonical bases an ambiguity code never mismatches.
C10_RevcompWidensDegeneracy ==
    pc = "r_hits" =>
        LET L == Len(primer)
            truth == find_approx_matches(seq, iupac_revcomp(primer), max_mismatch)
        IN  /\ \A k \in 1..Len(truth) :
                  \E j \in 1..Len(hits) :
                      /\ hits[j][1] = truth[k][1]
                      /\ hits[j][2] = truth[k][2]
                      /\ hits[j][3] <= truth[k][3]
            /\ \A j \in 1..Len(hits) :
                  hits[j][3] = Cardinality(
                      {q \in 1..L :
                          /\ primer[L + 1 - q] \in Unambiguous
                          /\ seq[hits[j][1] + q] # comp[primer[L + 1 - q]]})

C10_Witness ==
    /\ pc = "r_hits"
    /\ Len(primer) = 2 /\ primer[1] = "R" /\ primer[2] = "A"
    /\ seq = <<"T", "A">>
    /\ max_mismatch = 0
    /\ hits = << <<0, 2, 0>> >>
    /\ find_approx_matches(seq, iupac_revcomp(primer), max_mismatch) = <<>>

\* ------------------------------------------------------------------------
\* process_pair, one iteration of its file loop at a time
\* ------------------------------------------------------------------------
Stems == <<"s1", "s2", "s3", "s4">>
FileNames == <<"s1.fa", "s2.fasta", "s3.fna", "s4.ffn">>

PairSet ==
    { [pair_id |-> <<"p", "1">>, forward |-> <<"A", "C">>, reverse |-> <<"A", "C">>],
      [pair_id |-> <<"p", "2">>, forward |-> <<"A">>, reverse |-> <<"T">>],
      [pair_id |-> <<"p", "3">>, forward |-> <<"N">>, reverse |-> <<"R">>],
      [pair_id |-> <<"p", "4">>, forward |-> <<"G">>, reverse |-> <<"G">>] }

recA == [seq_id |-> "r1", seq |-> <<"A", "C", "G", "T">>]
recB == [seq_id |-> "r2", seq |-> <<"A", "A", "T">>]
RecordLists == {<<>>, <<recA>>, <<recB, recA>>}

InitPair ==
    /\ pair \in PairSet
    /\ max_mismatch \in 0..MaxMismatch
    /\ \/ \* one readable file holding one record, any short sequence
          /\ \E s \in TuplesOf(CanonicalBases, 1, MaxRecLen) :
                fasta_paths = << [stem |-> Stems[1], name |-> FileNames[1],
                                  records |-> <<[seq_id |-> "r1", seq |-> s]>>,
                                  error |-> FALSE] >>
          /\ min_len \in 0..(MaxRecLen + 1)
          /\ max_len \in 0..(MaxRecLen + 1)
       \/ \* several files, each readable or failing at some record
          /\ \E n \in 1..MaxFiles :
             \E recs \in [1..n -> RecordLists] :
             \E err \in [1..n -> BOOLEAN] :
                fasta_paths = [k \in 1..n |->
                                  [stem |-> Stems[k], name |-> FileNames[k],
                                   records |-> recs[k], error |-> err[k]]]
          /\ min_len = 1
          /\ max_len = 4
    /\ file_idx = 0
    /\ result_amplicons = <<>>
    /\ pc = "pair_loop"
    /\ NoScan /\ NoCsv /\ NoRun

\* The try block ran to the end of the file.
ScanFileOk ==
    /\ pc = "pair_loop"
    /\ file_idx < Len(fasta_paths)
    /\ ~ fasta_paths[file_idx + 1].error
    /\ result_amplicons' = result_amplicons \o
          records_amplicons(pair, fasta_paths[file_idx + 1],
                            read_fasta(fasta_paths[file_idx + 1]),
                            max_mismatch, min_len, max_len)
    /\ file_idx' = file_idx + 1
    /\ UNCHANGED <<pair, pc, cfgVars, scanVars, csvVars, runVars>>

\* read_fasta raised: the except block appends the note and the loop goes on.
ScanFileError ==
    /\ pc = "pair_loop"
    /\ file_idx < Len(fasta_paths)
    /\ fasta_paths[file_idx + 1].error
    /\ result_amplicons' = result_amplicons \o
          try_file(pair, fasta_paths[file_idx + 1], max_mismatch, min_len, max_len)
    /\ file_idx' = file_idx + 1
    /\ UNCHANGED <<pair, pc, cfgVars, scanVars, csvVars, runVars>>

\* return (pair_id, result_amplicons)
ReturnPair ==
    /\ pc = "pair_loop"
    /\ file_idx = Len(fasta_paths)
    /\ pc' = "pair_returned"
    /\ UNCHANGED <<pairVars, cfgVars, scanVars, csvVars, runVars>>

NextPair == ScanFileOk \/ ScanFileError \/ ReturnPair

SpecPair == InitPair /\ [][NextPair]_vars

\* ------------------------------------------------------------------------
\* Properties of process_pair
\* ------------------------------------------------------------------------
IsAmplicon(a) == "amplicon_sequence" \in DOMAIN a
IsError(a) == "error" \in DOMAIN a

Amplicons(list) == SelectSeq(list, IsAmplicon)
Errors(list) == SelectSeq(list, IsError)

\* C7: every amplicon process_pair holds satisfies min_len <= length <=
\* max_len and forward_start <= reverse_start, with length = reverse_end -
\* forward_start on zero-based half-open offsets, and its sequence is
\* sequence[forward_start : reverse_end] of the record it names, of that length.
C7_AmpliconInvariant ==
    pc \in {"pair_loop", "pair_returned"} =>
        \A k \in 1..Len(result_amplicons) :
            LET a == result_amplicons[k]
            IN  IsAmplicon(a) =>
                LET fs == a.fwd_start_1based - 1
                    rs == a.rev_start_1based - 1
                    re == a.rev_end_1based
                IN  /\ min_len <= a.amplicon_length
                    /\ a.amplicon_length <= max_len
                    /\ fs <= rs
                    /\ a.amplicon_length = re - fs
                    /\ Len(a.amplicon_sequence) = a.amplicon_length
                    /\ \E i \in 1..Len(fasta_paths) :
                       \E j \in 1..Len(fasta_paths[i].records) :
                          /\ fasta_paths[i].stem = a.sample_name
                          /\ fasta_paths[i].records[j].seq_id = a.seq_id
                          /\ 0 <= fs /\ re <= Len(fasta_paths[i].records[j].seq)
                          /\ a.amplicon_sequence =
                                SubSeq(fasta_paths[i].records[j].seq, fs + 1, re)

\* Overlapping primers, both length limits tight, more than one amplicon.
C7_Witness ==
    /\ pc = "pair_returned"
    /\ Len(Amplicons(result_amplicons)) >= 2
    /\ \E k \in 1..Len(result_amplicons) :
          /\ IsAmplicon(result_amplicons[k])
          /\ result_amplicons[k].amplicon_length = min_len
          /\ result_amplicons[k].amplicon_length = max_len
          /\ result_amplicons[k].amplicon_length >= 2
          /\ result_amplicons[k].fwd_start_1based < result_amplicons[k].rev_start_1based

FailedStems == {fasta_paths[i].stem : i \in {j \in 1..Len(fasta_paths) : fasta_paths[j].error}}

ReadableFiles == SelectSeq(fasta_paths, LAMBDA f : ~ f.error)

\* C3 as stated: once process_pair has returned, (1) the error entries are
\* exactly the failed files, in file order; (2) a failed file contributes no
\* amplicon; (3) the amplicons returned are those of every readable file.
C3_FailedFileIsolated ==
    pc = "pair_returned" =>
        /\ LET errs == Errors(result_amplicons)
               failed == SelectSeq(fasta_paths, LAMBDA f : f.error)
           IN  /\ Len(errs) = Len(failed)
               /\ \A k \in 1..Len(errs) :
                     errs[k] = [pair_id |-> pair.pair_id, error |-> failed[k].name]
        /\ \A k \in 1..Len(result_amplicons) :
              IsAmplicon(result_amplicons[k]) =>
                  result_amplicons[k].sample_name \notin FailedStems
        /\ Amplicons(result_amplicons) =
              Amplicons(files_amplicons(pair, ReadableFiles, max_mismatch,
                                        min_len, max_len))

\* ------------------------------------------------------------------------
\* parse_primer_csv on its own
\* ------------------------------------------------------------------------
h_Primer_Fwd == <<"P", "r", "i", "m", "e", "r", "_", "F", "w", "d">>
h_Primer_Rev == <<"P", "r", "i", "m", "e", "r", "_", "R", "e", "v">>
h_forward == <<"f", "o", "r", "w", "a", "r", "d">>
h_reverse == <<"r", "e", "v", "e", "r", "s", "e">>
h_id == <<"i", "d">>
h_fwd == <<"f", "w", "d">>
h_rev == <<"r", "e", "v">>
h_Name == <<"N", "a", "m", "e">>
h_FWD == <<"F", "W", "D">>
h_REV == <<"R", "E", "V">>
h_sample == <<"s", "a", "m", "p", "l", "e">>
h_notes == <<"n", "o", "t", "e", "s">>

HeaderRows ==
    { <<h_Primer_Fwd, h_Primer_Rev>>,
      <<h_forward, h_reverse>>,
      <<h_id, h_fwd, h_rev>>,
      <<h_Name, h_FWD, h_REV>>,
      <<h_sample, h_notes>> }

CellValues == { <<>>, <<" ", "a", "c", " ">>, <<"G">> }

InitCsv ==
    /\ \/ primer_csv = [fieldnames |-> None, rows |-> <<>>]
       \/ \E h \in HeaderRows : \E n \in 0..MaxRows :
          \E cells \in [1..n -> [1..Len(h) -> CellValues]] :
             primer_csv = [fieldnames |-> h, rows |-> cells]
    /\ primers = <<>>
    /\ pc = "csv_start"
    /\ NoScan /\ NoPair /\ NoFiles /\ NoRun
    /\ max_mismatch = 0

\* return pairs
ParseCsvReturn ==
    /\ pc = "csv_start"
    /\ ~ parse_primer_csv(primer_csv).raised
    /\ primers' = parse_primer_csv(primer_csv).pairs
    /\ pc' = "csv_parsed"
    /\ UNCHANGED <<primer_csv, scanVars, pairVars, cfgVars, runVars>>

\* raise ValueError(...)
ParseCsvRaise ==
    /\ pc = "csv_start"
    /\ parse_primer_csv(primer_csv).raised
    /\ pc' = "csv_failed"
    /\ UNCHANGED <<csvVars, scanVars, pairVars, cfgVars, runVars>>

NextCsv == ParseCsvReturn \/ ParseCsvRaise

SpecCsv == InitCsv /\ [][NextCsv]_vars

\* ------------------------------------------------------------------------
\* Properties of parse_primer_csv
\* ------------------------------------------------------------------------
\* The column a reader of the table would pick: the last one whose name,
\* case ignored, holds one of the keys (0: none).
ColumnOf(fieldnames, keys) ==
    LET at == {i \in 1..Len(fieldnames) :
                  \E k \in keys : Contains(Lower(fieldnames[i]), k)}
    IN  IF at = {} THEN 0 ELSE CHOOSE i \in at : \A j \in at : j <= i

NonEmptyCell(row, col) == col # 0 /\ Strip(row[col]) # <<>>

pair_n(n) == <<"p", "a", "i", "r", "_">> \o Decimal(n)

\* C2: when the table has a forward and a reverse column under any casing,
\* every row whose forward and reverse cells are non-empty yields a pair, in
\* row order, carrying the values of those cells; for the header
\* Primer_Fwd,Primer_Rev and two such rows the pairs are pair_1 and pair_2.
C2_RowsYieldPairs ==
    (pc = "csv_parsed" /\ primer_csv.fieldnames # None) =>
        LET fc == ColumnOf(primer_csv.fieldnames, fwd_keys)
            rc == ColumnOf(primer_csv.fieldnames, rev_keys)
            good == {i \in 1..Len(primer_csv.rows) :
                        /\ NonEmptyCell(primer_csv.rows[i], fc)
                        /\ NonEmptyCell(primer_csv.rows[i], rc)}
            at == Ascending(good)
        IN  /\ Len(primers) = Len(at)
            /\ \A k \in 1..Len(at) :
                  /\ primers[k].forward = Upper(Strip(primer_csv.rows[at[k]][fc]))
                  /\ primers[k].reverse = Upper(Strip(primer_csv.rows[at[k]][rc]))
            /\ (primer_csv.fieldnames = <<h_Primer_Fwd, h_Primer_Rev>>
                    /\ Len(primer_csv.rows) = 2 /\ good = {1, 2})
                => /\ primers[1].pair_id = pair_n(1)
                   /\ primers[2].pair_id = pair_n(2)

\* ------------------------------------------------------------------------
\* run_parallel: the dispatcher, its worker pool and the writers
\* ------------------------------------------------------------------------
\* Rows <<id, fwd, rev>> of the primer table; two ids differ and sanitize to
\* the same file name; the third row has no id and its pair never amplifies.
RunRows ==
    { <<<<"a", " ", "b">>, <<"A", "C">>, <<"A", "C">>>>,
      <<<<"a", "_", "b">>, <<"A">>, <<"T">>>>,
      << <<>>, <<"G">>, <<"G">>>> }

RunTables ==
    { [fieldnames |-> <<h_id, h_fwd, h_rev>>, rows |-> rows] :
        rows \in {r \in TuplesOf(RunRows, 0, MaxPairs) :
                     \A i, j \in 1..Len(r) : i # j => r[i] # r[j]} }

file_s1 == [stem |-> Stems[1], name |-> FileNames[1],
            records |-> <<recA>>, error |-> FALSE]

\* No FASTA file; a second file failing after one record; a second file that
\* cannot be opened; two readable files.
RunFileSets ==
    { <<>>,
      <<file_s1, [stem |-> Stems[2], name |-> FileNames[2],
                  records |-> <<recB>>, error |-> TRUE]>>,
      <<file_s1, [stem |-> Stems[2], name |-> FileNames[2],
                  records |-> <<>>, error |-> TRUE]>>,
      <<file_s1, [stem |-> Stems[2], name |-> FileNames[2],
                  records |-> <<recB, recA>>, error |-> FALSE]>> }

\* The front-end always passes --workers, 0 unless the user changes it; the
\* command line leaves it None by default.
Init ==
    /\ primer_csv \in RunTables
    /\ fasta_paths \in RunFileSets
    /\ max_mismatch = 0 /\ min_len = 1 /\ max_len = 4
    /\ caller \in {"gui", "cli"}
    /\ workers \in {WorkersInt(n) : n \in 0..MaxWorkers}
                   \cup (IF caller = "cli" THEN {WorkersNone} ELSE {})
    /\ primers = <<>>
    /\ pool_size = 0
    /\ futures = <<>> /\ order = <<>> /\ tasks = <<>>
    /\ out_files = <<>> /\ writes = <<>> /\ stdout = <<>>
    /\ summary = NotWritten /\ error = NoError
    /\ pc = "run_start"
    /\ NoScan /\ NoPair

\* if workers is None: workers = os.cpu_count() or 1
resolve_workers(w, cpu) == IF w.none THEN (IF cpu = 0 THEN 1 ELSE cpu) ELSE w.n

\* Lines 193-206 when they raise: parse_primer_csv's ValueError, SystemExit
\* without FASTA files, ProcessPoolExecutor's ValueError for max_workers <= 0.
AbortRun ==
    /\ pc = "run_start"
    /\ \/ /\ parse_primer_csv(primer_csv).raised
          /\ error' = "ValueError: primer csv"
       \/ /\ ~ parse_primer_csv(primer_csv).raised
          /\ fasta_paths = <<>>
          /\ error' = "SystemExit: no FASTA files"
       \/ /\ ~ parse_primer_csv(primer_csv).raised
          /\ fasta_paths # <<>>
          /\ ~ workers.none
          /\ workers.n <= 0
          /\ error' = "ValueError: max_workers must be greater than 0"
    /\ pc' = "run_failed"
    /\ UNCHANGED <<scanVars, pairVars, cfgVars, csvVars, caller, workers,
                   pool_size, futures, order, tasks, out_files, writes, stdout,
                   summary>>

\* Lines 193-207: the pool is created and one task per pair submitted.
\* os.cpu_count() is cpu (0 for None).
StartPool ==
    /\ pc = "run_start"
    /\ ~ parse_primer_csv(primer_csv).raised
    /\ fasta_paths # <<>>
    /\ \E cpu \in 0..MaxWorkers :
          /\ workers.none \/ cpu = 0
          /\ resolve_workers(workers, cpu) > 0
          /\ pool_size' = resolve_workers(workers, cpu)
    /\ primers' = parse_primer_csv(primer_csv).pairs
    /\ futures' = [i \in 1..Len(parse_primer_csv(primer_csv).pairs) |->
                      [state |-> "queued", result |-> <<>>]]
    /\ pc' = "run_collect"
    /\ UNCHANGED <<scanVars, pairVars, cfgVars, primer_csv, caller, workers,
                   order, tasks, out_files, writes, stdout, summary, error>>

\* A free worker takes the next task of the queue.
RunTask(i) ==
    /\ pc = "run_collect"
    /\ futures[i].state = "queued"
    /\ \A j \in 1..(i - 1) : futures[j].state # "queued"
    /\ Cardinality({j \in DOMAIN futures : futures[j].state = "running"}) < pool_size
    /\ futures' = [futures EXCEPT ![i].state = "running"]
    /\ UNCHANGED <<scanVars, pairVars, cfgVars, csvVars, caller, workers,
                   pool_size, order, tasks, out_files, writes, stdout, summary,
                   error, pc>>

\* The worker returns process_pair's value.
FinishTask(i) ==
    /\ pc = "run_collect"
    /\ futures[i].state = "running"
    /\ futures' = [futures EXCEPT ![i] =
                      [state |-> "returned",
                       result |-> process_pair(primers[i], fasta_paths,
                                               max_mismatch, min_len, max_len)]]
    /\ UNCHANGED <<scanVars, pairVars, cfgVars, csvVars, caller, workers,
                   pool_size, order, tasks, out_files, writes, stdout, summary,
                   error, pc>>

\* The task ends with an error process_pair does not catch (the worker
\* process dies, the result cannot be sent back).
FailTask(i) ==
    /\ pc = "run_collect"
    /\ futures[i].state = "running"
    /\ futures' = [futures EXCEPT ![i].state = "raised"]
    /\ UNCHANGED <<scanVars, pairVars, cfgVars, csvVars, caller, workers,
                   pool_size, order, tasks, out_files, writes, stdout, summary,
                   error, pc>>

\* One turn of `for fut in as_completed(futures)` whose fut.result() returns:
\* lines 211-239.
CollectResult(i) ==
    /\ pc = "run_collect"
    /\ futures[i].state = "returned"
    /\ \A k \in 1..Len(order) : order[k] # i
    /\ LET pair_id == futures[i].result[1]
           valid == valid_amplicons(futures[i].result[2])
           safe == safe_name(pair_id)
       IN  /\ out_files' = (safe :> collection_records(pair_id, valid)) @@ out_files
           /\ writes' = Append(writes, <<safe, i>>)
           /\ stdout' = Append(stdout, [kind |-> "wrote", n |-> Len(valid),
                                        file |-> safe])
           /\ tasks' = Append(tasks, <<pair_id, valid>>)
    /\ order' = Append(order, i)
    /\ UNCHANGED <<scanVars, pairVars, cfgVars, csvVars, caller, workers,
                   pool_size, futures, summary, error, pc>>

\* The except branch without `continue`: the failed pair goes on to the
\* writer with no amplicons.
CollectFailure_no_continue(i) ==
    /\ pc = "run_collect"
    /\ futures[i].state = "raised"
    /\ \A k \in 1..Len(order) : order[k] # i
    /\ out_files' = (safe_name(primers[i].pair_id) :> <<>>) @@ out_files
    /\ writes' = Append(writes, <<safe_name(primers[i].pair_id), i>>)
    /\ stdout' = stdout \o <<[kind |-> "error", pair_id |-> primers[i].pair_id],
                             [kind |-> "wrote", n |-> 0,
                              file |-> safe_name(primers[i].pair_id)]>>
    /\ tasks' = Append(tasks, <<primers[i].pair_id, <<>>>>)
    /\ order' = Append(order, i)
    /\ UNCHANGED <<scanVars, pairVars, cfgVars, csvVars, caller, workers,
                   pool_size, futures, summary, error, pc>>

\* One turn whose fut.result() raises: lines 212-214.
CollectFailure(i) ==
    /\ pc = "run_collect"
    /\ futures[i].state = "raised"
    /\ \A k \in 1..Len(order) : order[k] # i
    /\ stdout' = Append(stdout, [kind |-> "error", pair_id |-> primers[i].pair_id])
    /\ order' = Append(order, i)
    /\ UNCHANGED <<scanVars, pairVars, cfgVars, csvVars, caller, workers,
                   pool_size, futures, tasks, out_files, writes, summary, error,
                   pc>>

\* Lines 241-270, once as_completed is exhausted.
WriteSummary ==
    /\ pc = "run_collect"
    /\ Len(order) = Len(futures)
    /\ summary' = [written |-> TRUE, rows |-> summary_rows(tasks)]
    /\ stdout' = Append(stdout, [kind |-> "summary"])
    /\ pc' = "run_done"
    /\ UNCHANGED <<scanVars, pairVars, cfgVars, csvVars, caller, workers,
                   pool_size, futures, order, tasks, out_files, writes, error>>

Next ==
    \/ AbortRun
    \/ StartPool
    \/ \E i \in DOMAIN futures : RunTask(i)
    \/ \E i \in DOMAIN futures : FinishTask(i)
    \/ \E i \in DOMAIN futures : FailTask(i)
    \/ \E i \in DOMAIN futures : CollectResult(i)
    \/ \E i \in DOMAIN futures : CollectFailure(i)
    \/ WriteSummary

Spec == Init /\ [][Next]_vars

\* ------------------------------------------------------------------------
\* Properties of run_parallel
\* ------------------------------------------------------------------------
Returned == {i \in DOMAIN futures : futures[i].state = "returned"}
Raised == {i \in DOMAIN futures : futures[i].state = "raised"}

\* The tasks as_completed has yielded whose result() returned, in that order.
OkOrder == SelectSeq(order, LAMBDA i : futures[i].state = "returned")

\* What the evaluator produces for primers[i]: its amplicons, notes left out.
PairAmplicons(i) ==
    Amplicons(files_amplicons(primers[i], fasta_paths, max_mismatch,
                              min_len, max_len))

ExpectedCollection(i) == collection_records(primers[i].pair_id, PairAmplicons(i))

\* A summary row is the amplicon without its sequence.
RowOf(a) == [f \in DOMAIN a \ {"amplicon_sequence"} |-> a[f]]

RECURSIVE ExpectedRows(_)
ExpectedRows(ord) ==
    IF ord = <<>> THEN <<>>
    ELSE LET amps == PairAmplicons(Head(ord))
         IN  [k \in 1..Len(amps) |-> RowOf(amps[k])] \o ExpectedRows(Tail(ord))

\* The collection files a run over exactly the pairs of ord leaves, when
\* they complete in that order.
RECURSIVE ExpectedFiles(_)
ExpectedFiles(ord) ==
    IF ord = <<>> THEN <<>>
    ELSE LET i == ord[Len(ord)]
         IN  (safe_name(primers[i].pair_id) :> ExpectedCollection(i))
             @@ ExpectedFiles(SubSeq(ord, 1, Len(ord) - 1))

Startable == ~ parse_primer_csv(primer_csv).raised /\ fasta_paths # <<>>

\* C1: with workers 0 or unset, and a primer table and FASTA files to work
\* on, the run never fails: the pool gets at least one worker, one task per
\* primer pair is dispatched, and the run completes.
C1_ZeroWorkersAutoDetect ==
    (Startable /\ (workers.none \/ workers.n = 0)) =>
        /\ pc # "run_failed"
        /\ pc \in {"run_collect", "run_done"} =>
              pool_size >= 1 /\ Len(futures) = Len(primers)

\* C4: once the run is done, every read error a pair's task returned has
\* been reported on the output for that pair and file, and the amplicons of
\* the readable files are in the pair's records of the summary.
C4_SourceErrorsLogged ==
    pc = "run_done" =>
        \A i \in Returned :
            /\ \A k \in 1..Len(futures[i].result[2]) :
                  IsError(futures[i].result[2][k]) =>
                      \E n \in 1..Len(stdout) :
                          /\ stdout[n].kind = "error"
                          /\ stdout[n].pair_id = primers[i].pair_id
                          /\ "file" \in DOMAIN stdout[n]
                          /\ stdout[n].file = futures[i].result[2][k].error
            /\ \A k \in 1..Len(PairAmplicons(i)) :
                  \E n \in 1..Len(summary.rows) :
                      summary.rows[n] = RowOf(PairAmplicons(i)[k])

\* The run is not stuck: a task can start, is running, waits to be yielded,
\* or the loop can end.
DispatcherCanGoOn ==
    \/ Len(order) = Len(futures)
    \/ \E i \in DOMAIN futures :
          \/ futures[i].state = "running"
          \/ /\ futures[i].state \in {"returned", "raised"}
             /\ \A k \in 1..Len(order) : order[k] # i
          \/ /\ futures[i].state = "queued"
             /\ Cardinality({j \in DOMAIN futures :
                                futures[j].state = "running"}) < pool_size

\* C5: a pair whose task raised is dropped from every output (no collection
\* file is written for it, no summary row carries its pair_id), the
\* dispatcher goes on to consume every other task, the summary is written,
\* and the files and the summary are those of a run without the failed pairs.
C5_FailedPairDropped ==
    /\ Raised # {} =>
          /\ pc \in {"run_collect", "run_done"}
          /\ pc = "run_collect" => DispatcherCanGoOn
    /\ pc = "run_done" =>
          /\ Len(order) = Len(primers)
          /\ \A k \in 1..Len(writes) : writes[k][2] \notin Raised
          /\ \A n \in 1..Len(summary.rows) :
                \A i \in Raised : summary.rows[n].pair_id # primers[i].pair_id
          /\ summary.written
          /\ summary.rows = ExpectedRows(OkOrder)
          /\ out_files = ExpectedFiles(OkOrder)

\* A task raised and was yielded first; a later pair still got its file and rows.
C5_Witness ==
    /\ pc = "run_done"
    /\ Len(order) = 2
    /\ order[1] \in Raised
    /\ order[2] \in Returned
    /\ Len(summary.rows) > 0
    /\ Cardinality(DOMAIN out_files) = 1

\* C6: once the run is done there is one collection file per pair whose task
\* returned, and each holds exactly that pair's amplicons, whatever the
\* order of completion.
C6_OneFilePerPair ==
    pc = "run_done" =>
        /\ Cardinality(DOMAIN out_files) = Cardinality(Returned)
        /\ \A i \in Returned :
              /\ safe_name(primers[i].pair_id) \in DOMAIN out_files
              /\ out_files[safe_name(primers[i].pair_id)] = ExpectedCollection(i)

\* C8: (a) at every moment the collection files written are those of the
\* tasks yielded so far whose result returned, one write each, in the order
\* yielded: a task's file is written before the next completion is awaited;
\* (b) the summary is written only once every task has returned or raised
\* and been yielded; (c) its rows are grouped by pair in the order the tasks
\* were yielded, each pair's rows in the order its evaluator produced them.
C8_StreamingThenSummary ==
    /\ pc \in {"run_collect", "run_done"} =>
          /\ [k \in 1..Len(writes) |-> writes[k][2]] = OkOrder
          /\ \A k \in 1..Len(writes) :
                /\ writes[k][1] = safe_name(primers[writes[k][2]].pair_id)
                /\ writes[k][1] \in DOMAIN out_files
    /\ summary.written =>
          /\ \A i \in DOMAIN futures : futures[i].state \in {"returned", "raised"}
          /\ Len(order) = Len(futures)
    /\ pc = "run_done" =>
          /\ summary.written
          /\ summary.rows = ExpectedRows(OkOrder)

\* The second pair of the table completed first, and both have rows.
C8_Witness ==
    /\ pc = "run_done"
    /\ order = <<2, 1>>
    /\ Returned = {1, 2}
    /\ Len(tasks[1][2]) > 0 /\ Len(tasks[2][2]) > 0
    /\ summary.rows[1].pair_id = primers[2].pair_id
    /\ summary.rows[Len(summary.rows)].pair_id = primers[1].pair_id

====
